---------------------------- MODULE Spec2Model ----------------------------
(***************************************************************************)
(* eddymotion: the spherical covariance kernel                             *)
(* (src/eddymotion/model/kernels.py) and the rotation helper of the        *)
(* visualization module (src/eddymotion/viz.py).                           *)
(*                                                                         *)
(* Floating-point numbers are modelled as exact extended rationals: a pair *)
(* <<n, d>> in lowest terms with d >= 0, where <<1, 0>> is +inf,           *)
(* <<-1, 0>> is -inf and <<0, 0>> is NaN (what numpy yields for x/0 and    *)
(* 0/0).  Rounding is not modelled.                                        *)
(***************************************************************************)
EXTENDS Integers, Sequences, FiniteSets, TLC

VARIABLES
    lambda_s, a, sigma_sq,                      \* self.lambda_s, self.a, self.sigma_sq
    lambda_s_bounds, a_bounds, sigma_sq_bounds, \* the three bounds attributes
    call,      \* the last call on the instance: its name, arguments, locals, return value
    hist,      \* per scalar, the constructor value or the last value a set_params named
    ev,        \* frame of a thread inside __call__ (statement-by-statement execution)
    st,        \* frame of a thread inside set_params
    rot        \* a rotation_matrix call: its arguments and its result

vars == <<lambda_s, a, sigma_sq, lambda_s_bounds, a_bounds, sigma_sq_bounds,
          call, hist, ev, st, rot>>

-----------------------------------------------------------------------------
(* Float arithmetic on extended rationals.                                 *)

Abs(x) == IF x < 0 THEN -x ELSE x

Sgn(x) == IF x < 0 THEN -1 ELSE IF x > 0 THEN 1 ELSE 0

RECURSIVE Gcd(_, _)
Gcd(x, y) == IF y = 0 THEN x ELSE Gcd(y, x % y)

\* the float n/d, in lowest terms; n/0 is +-inf and 0/0 is NaN
F(n, d) ==
    IF d = 0 THEN <<Sgn(n), 0>>
    ELSE LET g == Gcd(Abs(n), Abs(d))
         IN  <<(Sgn(d) * n) \div g, Abs(d) \div g>>

NaN == <<0, 0>>

IsNaN(x) == x = NaN

IsInf(x) == x[2] = 0 /\ x[1] # 0

IsFinite(x) == x[2] > 0

FAdd(x, y) ==
    IF IsInf(x) /\ IsInf(y) THEN (IF x = y THEN x ELSE NaN)
    ELSE F(x[1] * y[2] + y[1] * x[2], x[2] * y[2])

FNeg(x) == <<-x[1], x[2]>>

FSub(x, y) == FAdd(x, FNeg(y))

FMul(x, y) == F(x[1] * y[1], x[2] * y[2])

\* x / y; a zero divisor is +0.0: x/0 is +-inf by the sign of x, 0/0 and inf/inf are NaN
FDiv(x, y) == F(x[1] * y[2], x[2] * y[1])

\* x <= y; every comparison with NaN is false
FLe(x, y) ==
    IF IsNaN(x) \/ IsNaN(y) THEN FALSE
    ELSE IF IsInf(x) /\ IsInf(y) THEN x[1] <= y[1]
    ELSE x[1] * y[2] <= y[1] * x[2]

FLt(x, y) == FLe(x, y) /\ x # y

FSq(x) == FMul(x, x)

FCube(x) == FMul(x, FMul(x, x))

Zero == F(0, 1)

One == F(1, 1)

\* an optional value: <<>> is Python's None, <<x>> is the value x
NoneVal == <<>>

Some(x) == <<x>>

IsNone(o) == Len(o) = 0

-----------------------------------------------------------------------------
(* SphericalCovarianceKernel.__call__                                      *)

\* the values of self.a, self.lambda_s and self.sigma_sq that one execution of
\* __call__ reads, one field per attribute access, in program order
Reads(l, av, s) ==
    [a98c |-> av, a98x |-> av, a98y |-> av,       \* line 98: the three self.a
     a104 |-> av,                                   \* line 104: the mask
     a105 |-> av, a106 |-> av, a107 |-> av,       \* lines 105-107
     l108 |-> l, l109 |-> l, l112 |-> l, s112 |-> s]

\* KBase without the np.where: the cubic is used beyond the cutoff too
KBaseNoCutoff(t, ac, ax, ay) ==
    FAdd(FSub(One, FMul(F(3, 1), FSq(FDiv(t, ax)))),
         FMul(F(2, 1), FCube(FDiv(t, ay))))

\* line 98, one element:
\* np.where(theta <= a, 1 - 3 * (theta / a) ** 2 + 2 * (theta / a) ** 3, 0)
KBase(t, ac, ax, ay) ==
    IF FLe(t, ac)
    THEN FAdd(FSub(One, FMul(F(3, 1), FSq(FDiv(t, ax)))),
              FMul(F(2, 1), FCube(FDiv(t, ay))))
    ELSE Zero

\* lines 103-107, one element: zero outside the mask theta <= a, inside it
\* (3 * theta / a**2) - (1.5 * (theta / a) ** 2) / a
DistsDeriv(t, am, a1, a2, a3) ==
    IF FLe(t, am)
    THEN FSub(FDiv(FMul(F(3, 1), t), FSq(a1)),
              FDiv(FMul(F(3, 2), FSq(FDiv(t, a2))), a3))
    ELSE Zero

\* Eye with the ones on the first superdiagonal, np.eye(n, k=1)
EyeShifted(i, j) == IF i + 1 = j THEN One ELSE Zero

\* np.eye(n)[i, j]
Eye(i, j) == IF i = j THEN One ELSE Zero

\* len(theta): the number of rows
Rows(m) == Len(m)

\* Effective with the second argument dropped
EffectiveIgnoresPrime(theta, theta_prime) == theta

\* line 96-97: the matrix the computation runs on
Effective(theta, theta_prime) ==
    IF ~IsNone(theta_prime) THEN theta_prime[1] ELSE theta

\* the local K of line 98
LocalK(th, rd) ==
    [i \in 1..Rows(th) |-> [j \in 1..Len(th[i]) |->
        KBase(th[i][j], rd.a98c, rd.a98x, rd.a98y)]]

\* KGradient with slice 0 taken from the returned matrix instead of the local K
KGradientFromReturned(th, eval_gradient, rd) ==
    IF ~eval_gradient THEN NoneVal
    ELSE Some([i \in 1..Rows(th) |-> [j \in 1..Len(th[i]) |->
            << FDiv(FAdd(FMul(rd.l112, LocalK(th, rd)[i][j]), FMul(rd.s112, Eye(i, j))),
                    rd.l108),
               FMul(rd.l109, DistsDeriv(th[i][j], rd.a104, rd.a105, rd.a106, rd.a107)),
               Eye(i, j) >>]])

\* lines 100-110: None, or the (n, n, 3) tensor
KGradient(th, eval_gradient, rd) ==
    IF ~eval_gradient THEN NoneVal
    ELSE Some([i \in 1..Rows(th) |-> [j \in 1..Len(th[i]) |->
            << FDiv(LocalK(th, rd)[i][j], rd.l108),
               FMul(rd.l109, DistsDeriv(th[i][j], rd.a104, rd.a105, rd.a106, rd.a107)),
               Eye(i, j) >>]])

\* KReturned with the noise added wherever the angle is zero
KReturnedNoiseAtZeroAngle(th, rd) ==
    [i \in 1..Rows(th) |-> [j \in 1..Len(th[i]) |->
        FAdd(FMul(rd.l112, LocalK(th, rd)[i][j]),
             FMul(rd.s112, IF th[i][j] = Zero THEN One ELSE Zero))]]

\* line 112: self.lambda_s * K + self.sigma_sq * np.eye(len(theta))
KReturned(th, rd) ==
    [i \in 1..Rows(th) |-> [j \in 1..Len(th[i]) |->
        FAdd(FMul(rd.l112, LocalK(th, rd)[i][j]), FMul(rd.s112, Eye(i, j)))]]

\* the pair __call__ returns, given the attribute values it read
CallWith(theta, theta_prime, eval_gradient, rd) ==
    LET th == Effective(theta, theta_prime)
    IN  << KReturned(th, rd), KGradient(th, eval_gradient, rd) >>

-----------------------------------------------------------------------------
(* The kernel instance: construction, accessors, mutation.                 *)

\* a bounds attribute: a (low, high) pair, or the sentinel "fixed"
Pair(lo, hi) == [fixed |-> FALSE, lo |-> lo, hi |-> hi]

Fixed == [fixed |-> TRUE, lo |-> NaN, hi |-> NaN]

\* __init__'s defaults (lines 48-53); np.pi is written 355/113
DefaultLambdaS == F(2, 1)

DefaultA == F(1, 10)

DefaultSigmaSq == One

DefaultLambdaSBounds == Pair(F(1, 100000), F(10000, 1))

DefaultABounds == Pair(F(1, 100000), F(355, 113))

DefaultSigmaSqBounds == Pair(F(1, 100000), F(10000, 1))

\* __init__: the six attributes of a new instance
Kernel(l, av, s, lb, ab, sb) ==
    [lambda_s |-> l, a |-> av, sigma_sq |-> s,
     lambda_s_bounds |-> lb, a_bounds |-> ab, sigma_sq_bounds |-> sb]

\* the instance the variables hold
Self == Kernel(lambda_s, a, sigma_sq, lambda_s_bounds, a_bounds, sigma_sq_bounds)

\* the three Hyperparameter descriptors of a kernel (properties, lines 62-72)
hyperparameter_lambda_s(k) == <<"lambda_s", "numeric", k.lambda_s_bounds>>

hyperparameter_a(k) == <<"a", "numeric", k.a_bounds>>

hyperparameter_sigma_sq(k) == <<"sigma_sq", "numeric", k.sigma_sq_bounds>>

Hyperparameters(k) ==
    <<hyperparameter_lambda_s(k), hyperparameter_a(k), hyperparameter_sigma_sq(k)>>

\* get_params: exactly the three scalars, by name
get_params(k) ==
    [key \in {"lambda_s", "a", "sigma_sq"} |->
        IF key = "lambda_s" THEN k.lambda_s
        ELSE IF key = "a" THEN k.a ELSE k.sigma_sq]

\* dict.get(key, default)
Get(params, key, default) ==
    IF key \in DOMAIN params THEN params[key] ELSE default

\* the engine's clone step: the class called with get_params() as keyword
\* arguments; the parameters get_params() does not name take __init__'s defaults
CloneOf(k) ==
    LET params == get_params(k)
    IN  Kernel(Get(params, "lambda_s", DefaultLambdaS),
               Get(params, "a", DefaultA),
               Get(params, "sigma_sq", DefaultSigmaSq),
               Get(params, "lambda_s_bounds", DefaultLambdaSBounds),
               Get(params, "a_bounds", DefaultABounds),
               Get(params, "sigma_sq_bounds", DefaultSigmaSqBounds))

\* DiagOf without the noise variance
DiagOfScaleOnly(X, l, s) == [i \in 1..Rows(X) |-> l]

\* diag: np.full(X.shape[0], self.lambda_s + self.sigma_sq)
DiagOf(X, l, s) == [i \in 1..Rows(X) |-> FAdd(l, s)]

-----------------------------------------------------------------------------
(* Inputs.                                                                 *)

\* largest number of samples (rows of theta, rows of X)
MaxN == 2

LambdaVals == {Zero, DefaultLambdaS}

AVals == {Zero, F(1, 2), One}

SigmaVals == {Zero, F(1, 10)}

ThetaVals == {Zero, F(1, 4), F(1, 2), F(3, 4)}

\* the n x n matrix with d on the diagonal, u above it and l below it
Mat(n, d, u, l) ==
    [i \in 1..n |-> [j \in 1..n |-> IF i = j THEN d ELSE IF i < j THEN u ELSE l]]

Thetas == {Mat(n, d, u, l) : n \in 1..MaxN, d \in ThetaVals, u \in ThetaVals, l \in ThetaVals}

\* the second arguments tried: None, or a matrix of another shape or content
ThetaPrimes ==
    {NoneVal, Some(Mat(1, F(1, 4), Zero, Zero)), Some(Mat(MaxN, Zero, F(3, 4), F(1, 4)))}

\* sample arrays of shape (n, 2)
XInputs == {[i \in 1..n |-> <<x, y>>] : n \in 0..MaxN, x \in {Zero, One}, y \in {Zero, One}}

BoundsVals(default) == {default, Fixed, Pair(F(1, 10), F(10, 1))}

\* the bounds arguments given to __init__: all defaults, one of the three
\* replaced by "fixed" or by another pair, or all three "fixed"
CtorBounds ==
    {b \in BoundsVals(DefaultLambdaSBounds) \X BoundsVals(DefaultABounds)
            \X BoundsVals(DefaultSigmaSqBounds) :
        \/ Cardinality({i \in 1..3 :
              b[i] # <<DefaultLambdaSBounds, DefaultABounds, DefaultSigmaSqBounds>>[i]}) <= 1
        \/ b = <<Fixed, Fixed, Fixed>>}

\* keyword arguments of set_params: any subset of the three names, and
\* possibly a name the kernel does not have
Opt(S) == {NoneVal} \cup {Some(x) : x \in S}

Kwargs(pl, pa, ps, pu) ==
    LET given == [lambda_s |-> pl, a |-> pa, sigma_sq |-> ps, length_scale |-> pu]
    IN  [key \in {k \in DOMAIN given : ~IsNone(given[k])} |-> given[key][1]]

-----------------------------------------------------------------------------
(* Sequential use of one instance.                                         *)

Frame(op, args, locals, ret) == [op |-> op, args |-> args, locals |-> locals, ret |-> ret]

NoCall == Frame("none", <<>>, <<>>, <<>>)

EvIdle == [pc |-> "idle"]

StIdle == [pc |-> "idle"]

RotIdle == [pc |-> "idle"]

\* __init__ (lines 55-60)
Init ==
    /\ lambda_s \in LambdaVals
    /\ a \in AVals
    /\ sigma_sq \in SigmaVals
    /\ \E b \in CtorBounds :
          /\ lambda_s_bounds = b[1]
          /\ a_bounds = b[2]
          /\ sigma_sq_bounds = b[3]
    /\ call = NoCall
    /\ hist = [lambda_s |-> lambda_s, a |-> a, sigma_sq |-> sigma_sq]
    /\ ev = EvIdle
    /\ st = StIdle
    /\ rot = RotIdle

Others == <<ev, st, rot>>

Scalars == <<lambda_s, a, sigma_sq>>

Bounds == <<lambda_s_bounds, a_bounds, sigma_sq_bounds>>

\* __call__(theta, theta_prime, eval_gradient), run to completion
Evaluate(theta, theta_prime, eval_gradient) ==
    /\ call = NoCall
    /\ call' = Frame("evaluate",
                     [theta |-> theta, theta_prime |-> theta_prime,
                      eval_gradient |-> eval_gradient],
                     [K |-> LocalK(Effective(theta, theta_prime),
                                   Reads(lambda_s, a, sigma_sq))],
                     CallWith(theta, theta_prime, eval_gradient,
                              Reads(lambda_s, a, sigma_sq)))
    /\ UNCHANGED <<Scalars, Bounds, hist, Others>>

\* diag(X)
Diag(X) ==
    /\ call = NoCall
    /\ call' = Frame("diag", [X |-> X], <<>>, DiagOf(X, lambda_s, sigma_sq))
    /\ UNCHANGED <<Scalars, Bounds, hist, Others>>

\* is_stationary()
IsStationary ==
    /\ call = NoCall
    /\ call' = Frame("is_stationary", <<>>, <<>>, TRUE)
    /\ UNCHANGED <<Scalars, Bounds, hist, Others>>

\* get_params(deep)
GetParams(deep) ==
    /\ call = NoCall
    /\ call' = Frame("get_params", [deep |-> deep], <<>>, get_params(Self))
    /\ UNCHANGED <<Scalars, Bounds, hist, Others>>

\* set_params falling back on __init__'s defaults for the names not given
SetParamsResetsMissing(params) ==
    /\ call = NoCall
    /\ lambda_s' = Get(params, "lambda_s", DefaultLambdaS)
    /\ a' = Get(params, "a", DefaultA)
    /\ sigma_sq' = Get(params, "sigma_sq", DefaultSigmaSq)
    /\ call' = Frame("set_params", [params |-> params], <<>>, "self")
    /\ hist' = [key \in DOMAIN hist |->
                    IF key \in DOMAIN params THEN params[key] ELSE hist[key]]
    /\ UNCHANGED <<Bounds, Others>>

\* set_params(**params) (lines 171-174)
SetParams(params) ==
    /\ call = NoCall
    /\ lambda_s' = Get(params, "lambda_s", lambda_s)
    /\ a' = Get(params, "a", a)
    /\ sigma_sq' = Get(params, "sigma_sq", sigma_sq)
    /\ call' = Frame("set_params", [params |-> params], <<>>, "self")
    /\ hist' = [key \in DOMAIN hist |->
                    IF key \in DOMAIN params THEN params[key] ELSE hist[key]]
    /\ UNCHANGED <<Bounds, Others>>

\* the engine rebuilds the kernel from get_params()
Clone ==
    /\ call = NoCall
    /\ call' = Frame("clone", <<>>, <<>>, CloneOf(Self))
    /\ UNCHANGED <<Scalars, Bounds, hist, Others>>

\* the caller takes the returned value; the next call starts afresh
Return ==
    /\ call # NoCall
    /\ call' = NoCall
    /\ UNCHANGED <<Scalars, Bounds, hist, Others>>

Next ==
    \/ \E theta \in Thetas, theta_prime \in ThetaPrimes, eval_gradient \in BOOLEAN :
          Evaluate(theta, theta_prime, eval_gradient)
    \/ \E X \in XInputs : Diag(X)
    \/ IsStationary
    \/ \E deep \in BOOLEAN : GetParams(deep)
    \/ \E pl \in Opt(LambdaVals), pa \in Opt(AVals), ps \in Opt(SigmaVals),
          pu \in Opt({One}) : SetParams(Kwargs(pl, pa, ps, pu))
    \/ Clone
    \/ Return

Spec == Init /\ [][Next]_vars

-----------------------------------------------------------------------------
(* Properties of the sequential kernel.                                    *)

\* the base correlation as the specification writes it
SpecKBase(t, cutoff) ==
    IF FLe(t, cutoff)
    THEN FAdd(FSub(One, FMul(F(3, 1), FSq(FDiv(t, cutoff)))),
              FMul(F(2, 1), FCube(FDiv(t, cutoff))))
    ELSE Zero

Positive(x) == FLt(Zero, x)

Evaluated == call.op = "evaluate"

\* an evaluate(theta) call, no second argument
EvaluatedPlain == Evaluated /\ IsNone(call.args.theta_prime)

Idx(m) == {<<i, j>> : i \in 1..Rows(m), j \in 1..Rows(m)}

Symmetric(m) == \A ij \in Idx(m) : m[ij[1]][ij[2]] = m[ij[2]][ij[1]]

ZeroDiagonal(m) == \A i \in 1..Rows(m) : m[i][i] = Zero

ExampleTheta == <<<<Zero, F(1, 4)>>, <<F(1, 4), Zero>>>>

\* C1: evaluate(theta), with a > 0, returns K with
\* K[i,j] = lambda_s * K_base(theta[i,j]) + (sigma_sq if i = j else 0); the
\* noise goes to the entries with i = j only.  With theta = [[0, 0.25], [0.25, 0]],
\* lambda_s = 2, a = 0.5, sigma_sq = 0.1 the result is [[2.1, 1.0], [1.0, 2.1]].
C1_KernelFormula ==
    (EvaluatedPlain /\ Positive(a)) =>
        LET theta == call.args.theta
            K == call.ret[1]
        IN  /\ Rows(K) = Rows(theta)
            /\ \A ij \in Idx(theta) :
                  K[ij[1]][ij[2]] =
                      FAdd(FMul(lambda_s, SpecKBase(theta[ij[1]][ij[2]], a)),
                           IF ij[1] = ij[2] THEN sigma_sq ELSE Zero)
            /\ (/\ theta = ExampleTheta
                /\ lambda_s = F(2, 1) /\ a = F(1, 2) /\ sigma_sq = F(1, 10))
               => K = <<<<F(21, 10), One>>, <<One, F(21, 10)>>>>

\* an evaluate(theta) whose theta has a zero angle off the diagonal, with noise
C1_Witness ==
    /\ EvaluatedPlain /\ Positive(a) /\ Positive(sigma_sq) /\ Positive(lambda_s)
    /\ Rows(call.args.theta) = 2
    /\ call.args.theta[1][2] = Zero
    /\ call.ret[1][1][2] = lambda_s
    /\ call.ret[1][1][1] = FAdd(lambda_s, sigma_sq)

\* C2: for a > 0 and a symmetric theta with zero diagonal, the K of
\* evaluate(theta) is symmetric and K[i,i] = lambda_s + sigma_sq for every i.
C2_SymmetricDiagonal ==
    (/\ EvaluatedPlain /\ Positive(a)
     /\ Symmetric(call.args.theta) /\ ZeroDiagonal(call.args.theta)) =>
        LET K == call.ret[1]
        IN  /\ Symmetric(K)
            /\ \A i \in 1..Rows(K) : K[i][i] = FAdd(lambda_s, sigma_sq)

C2_Witness ==
    /\ EvaluatedPlain /\ Positive(a) /\ Positive(sigma_sq) /\ Positive(lambda_s)
    /\ Rows(call.args.theta) = 2
    /\ Symmetric(call.args.theta) /\ ZeroDiagonal(call.args.theta)
    /\ FLt(Zero, call.args.theta[1][2]) /\ FLt(call.args.theta[1][2], a)
    /\ call.ret[1][1][2] = call.ret[1][2][1]
    /\ call.ret[1][2][2] = FAdd(lambda_s, sigma_sq)

\* the matrix an evaluate ran on, with the base correlation it computed
BaseTheta == Effective(call.args.theta, call.args.theta_prime)

BaseK == call.locals.K

\* C3: for a > 0 the base correlation computed by evaluate has K_base(0) = 1,
\* K_base(a) = 0, K_base(t1) >= K_base(t2) whenever 0 <= t1 <= t2 <= a, and
\* K_base(t) = 0 for every t > a.
C3_BaseCorrelation ==
    (Evaluated /\ Positive(a)) =>
        /\ \A ij \in Idx(BaseTheta) :
              LET t == BaseTheta[ij[1]][ij[2]]
                  k == BaseK[ij[1]][ij[2]]
              IN  /\ t = Zero => k = One
                  /\ t = a => k = Zero
                  /\ FLt(a, t) => k = Zero
        /\ \A ij \in Idx(BaseTheta), kl \in Idx(BaseTheta) :
              LET t1 == BaseTheta[ij[1]][ij[2]]
                  t2 == BaseTheta[kl[1]][kl[2]]
              IN  (FLe(Zero, t1) /\ FLe(t1, t2) /\ FLe(t2, a))
                      => FLe(BaseK[kl[1]][kl[2]], BaseK[ij[1]][ij[2]])

\* one evaluation with angles 0, strictly inside the support and beyond a
C3_Witness ==
    /\ Evaluated /\ Positive(a)
    /\ Rows(BaseTheta) = 2
    /\ BaseTheta[1][1] = Zero /\ BaseK[1][1] = One
    /\ FLt(Zero, BaseTheta[1][2]) /\ FLt(BaseTheta[1][2], a)
    /\ FLt(Zero, BaseK[1][2]) /\ FLt(BaseK[1][2], One)
    /\ FLt(a, BaseTheta[2][1]) /\ BaseK[2][1] = Zero

C5_PrimeReplaces ==
    (Evaluated /\ ~IsNone(call.args.theta_prime)) =>
        /\ call.ret = CallWith(call.args.theta_prime[1], NoneVal,
                               call.args.eval_gradient, Reads(lambda_s, a, sigma_sq))
        /\ Rows(call.ret[1]) = Rows(call.args.theta_prime[1])
        /\ call.args.eval_gradient =>
              Rows(call.ret[2][1]) = Rows(call.args.theta_prime[1])

\* a call whose two arguments differ in shape
C5_Witness ==
    /\ Evaluated /\ ~IsNone(call.args.theta_prime) /\ call.args.eval_gradient
    /\ Rows(call.args.theta) # Rows(call.args.theta_prime[1])
    /\ Rows(call.ret[1]) = Rows(call.args.theta_prime[1])
    /\ Positive(a) /\ Positive(lambda_s)

ScalarNames == {"lambda_s", "a", "sigma_sq"}

ScalarOf(k, key) ==
    IF key = "lambda_s" THEN k.lambda_s ELSE IF key = "a" THEN k.a ELSE k.sigma_sq

\* one step of the instance: what a completed call did to its attributes
C6_Step ==
    LET before == Self
        after == Self'
    IN  /\ (call'.op = "set_params") =>
              /\ \A key \in ScalarNames :
                    ScalarOf(after, key) =
                        IF key \in DOMAIN call'.args.params
                        THEN call'.args.params[key]
                        ELSE ScalarOf(before, key)
              /\ call'.ret = "self"
        /\ (call'.op # "set_params") => Scalars' = Scalars
        /\ Bounds' = Bounds

\* C6: set_params is the only operation that changes the instance: it
\* overwrites exactly the scalars its mapping names, ignores other keys,
\* leaves the bounds alone and returns the instance; evaluate, diag,
\* is_stationary and get_params change nothing.  So each scalar equals its
\* constructor value or the value of the last set_params that named it.
C6_OnlySetParamsMutates ==
    /\ [](\A key \in ScalarNames : ScalarOf(Self, key) = hist[key])
    /\ [][C6_Step]_vars

\* a set_params naming a, not lambda_s, and a key the kernel does not have
C6_Witness ==
    /\ call.op = "set_params"
    /\ "length_scale" \in DOMAIN call.args.params
    /\ "a" \in DOMAIN call.args.params
    /\ "lambda_s" \notin DOMAIN call.args.params
    /\ a = call.args.params["a"]
    /\ call.ret = "self"

\* C7: diag(X) returns a vector with one entry per row of X, each equal to the
\* current lambda_s + sigma_sq, whatever X holds and whatever a is.
C7_Diagonal ==
    (call.op = "diag") =>
        /\ Len(call.ret) = Rows(call.args.X)
        /\ \A i \in 1..Len(call.ret) : call.ret[i] = FAdd(lambda_s, sigma_sq)

\* a diag after a set_params changed lambda_s from its constructor value
C7_Witness ==
    /\ call.op = "diag"
    /\ Rows(call.args.X) = 2
    /\ call.args.X[1] # <<Zero, Zero>>
    /\ Positive(sigma_sq) /\ Positive(lambda_s)
    /\ call.ret = <<FAdd(lambda_s, sigma_sq), FAdd(lambda_s, sigma_sq)>>

\* C10: the kernel rebuilt from get_params() exposes the same bounds in its
\* three hyperparameter descriptors as the original.
C10_CloneKeepsBounds ==
    (call.op = "clone") => Hyperparameters(call.ret) = Hyperparameters(Self)

-----------------------------------------------------------------------------
(* One thread inside __call__ and one inside set_params, on one instance.  *)
(* Each attribute read of __call__ and each assignment of set_params is a  *)
(* step of its own: the interpreter may switch threads between them.       *)

\* the attribute reads of __call__, in program order
EvOrder(eval_gradient) ==
    IF eval_gradient
    THEN <<"a98c", "a98x", "a98y", "a104", "a105", "a106", "a107",
           "l108", "l109", "l112", "s112">>
    ELSE <<"a98c", "a98x", "a98y", "l112", "s112">>

\* FieldAt with line 112 reading lambda_s where it should read sigma_sq
FieldAtNoiseFromScale(name) ==
    IF name \in {"l108", "l109", "l112", "s112"} THEN lambda_s ELSE a

\* the attribute a read step loads
FieldAt(name) ==
    IF name \in {"l108", "l109", "l112"} THEN lambda_s
    ELSE IF name = "s112" THEN sigma_sq
    ELSE a

\* the matrices the racing __call__ is given
RaceThetas == {Mat(1, Zero, Zero, Zero), Mat(MaxN, Zero, F(1, 4), F(1, 2))}

InitRace ==
    /\ lambda_s \in LambdaVals
    /\ a \in AVals
    /\ sigma_sq \in SigmaVals
    /\ lambda_s_bounds = DefaultLambdaSBounds
    /\ a_bounds = DefaultABounds
    /\ sigma_sq_bounds = DefaultSigmaSqBounds
    /\ call = NoCall
    /\ hist = [lambda_s |-> lambda_s, a |-> a, sigma_sq |-> sigma_sq]
    /\ \E theta \in RaceThetas, eval_gradient \in BOOLEAN :
          ev = [pc |-> "reading", i |-> 1, theta |-> theta,
                eval_gradient |-> eval_gradient,
                rd |-> Reads(Zero, Zero, Zero), ret |-> <<>>,
                stFirst |-> "none", stLast |-> "none"]
    /\ \E pl \in Opt(LambdaVals), pa \in Opt(AVals), ps \in Opt(SigmaVals) :
          st = [pc |-> "l171", params |-> Kwargs(pl, pa, ps, NoneVal),
                pre |-> [lambda_s |-> lambda_s, a |-> a, sigma_sq |-> sigma_sq]]
    /\ rot = RotIdle

\* __call__: the next attribute read
EvRead ==
    /\ ev.pc = "reading"
    /\ LET order == EvOrder(ev.eval_gradient)
           name == order[ev.i]
       IN  ev' = [ev EXCEPT
                    !.rd = [ev.rd EXCEPT ![name] = FieldAt(name)],
                    !.i = ev.i + 1,
                    !.pc = IF ev.i = Len(order) THEN "return" ELSE "reading",
                    !.stFirst = IF ev.i = 1 THEN st.pc ELSE ev.stFirst,
                    !.stLast = IF ev.i = Len(order) THEN st.pc ELSE ev.stLast]
    /\ UNCHANGED <<Scalars, Bounds, call, hist, st, rot>>

\* __call__: the pair is built from what was read, and returned
EvReturn ==
    /\ ev.pc = "return"
    /\ ev' = [ev EXCEPT !.pc = "done",
                        !.ret = CallWith(ev.theta, NoneVal, ev.eval_gradient, ev.rd)]
    /\ UNCHANGED <<Scalars, Bounds, call, hist, st, rot>>

\* set_params, line 171
StLambdaS ==
    /\ st.pc = "l171"
    /\ lambda_s' = Get(st.params, "lambda_s", lambda_s)
    /\ st' = [st EXCEPT !.pc = "l172"]
    /\ hist' = [hist EXCEPT !.lambda_s = Get(st.params, "lambda_s", hist.lambda_s)]
    /\ UNCHANGED <<a, sigma_sq, Bounds, call, ev, rot>>

\* set_params, line 172
StA ==
    /\ st.pc = "l172"
    /\ a' = Get(st.params, "a", a)
    /\ st' = [st EXCEPT !.pc = "l173"]
    /\ hist' = [hist EXCEPT !.a = Get(st.params, "a", hist.a)]
    /\ UNCHANGED <<lambda_s, sigma_sq, Bounds, call, ev, rot>>

\* set_params, lines 173-174
StSigmaSq ==
    /\ st.pc = "l173"
    /\ sigma_sq' = Get(st.params, "sigma_sq", sigma_sq)
    /\ st' = [st EXCEPT !.pc = "done"]
    /\ hist' = [hist EXCEPT !.sigma_sq = Get(st.params, "sigma_sq", hist.sigma_sq)]
    /\ UNCHANGED <<lambda_s, a, Bounds, call, ev, rot>>

NextRace == EvRead \/ EvReturn \/ StLambdaS \/ StA \/ StSigmaSq

SpecRace == InitRace /\ [][NextRace]_vars

\* the parameters before the set_params and after all of it
PreParams == st.pre

PostParams ==
    [key \in ScalarNames |-> Get(st.params, key, st.pre[key])]

\* the pair an evaluate computes entirely from one set of parameters
AtomicResult(p) ==
    CallWith(ev.theta, NoneVal, ev.eval_gradient, Reads(p.lambda_s, p.a, p.sigma_sq))

\* C8: evaluate is not atomic with respect to set_params.  The returned pair
\* is the pair of the pre-update parameters when set_params had not started at
\* the last read, and the pair of the post-update parameters when set_params
\* had finished at the first read; only an overlap of the two calls yields
\* anything else (the pair C8_Witness reaches).
C8_SerialOnlyWhenNotOverlapped ==
    (ev.pc = "done") =>
        /\ (ev.stLast = "l171") => ev.ret = AtomicResult(PreParams)
        /\ (ev.stFirst = "done") => ev.ret = AtomicResult(PostParams)
        /\ (ev.ret # AtomicResult(PreParams) /\ ev.ret # AtomicResult(PostParams))
              => (ev.stLast # "l171" /\ ev.stFirst # "done")

\* an evaluate(theta, eval_gradient=True), all parameters positive before and
\* after, whose pair is neither the pre-update pair nor the post-update pair:
\* line 98 read the old cutoff, line 107 the new one
C8_Witness ==
    /\ ev.pc = "done" /\ st.pc = "done"
    /\ ev.eval_gradient
    /\ Positive(PreParams.lambda_s) /\ Positive(PostParams.lambda_s)
    /\ Positive(PreParams.a) /\ Positive(PostParams.a)
    /\ PreParams.a # PostParams.a
    /\ ev.rd.a98c = PreParams.a
    /\ ev.rd.a107 = PostParams.a
    /\ ev.ret # AtomicResult(PreParams)
    /\ ev.ret # AtomicResult(PostParams)

-----------------------------------------------------------------------------
(* viz.rotation_matrix                                                     *)

\* largest absolute coordinate of the vectors given to rotation_matrix
MaxCoord == 4

IsSquare(n) == \E r \in 0..n : r * r = n

ISqrt(n) == CHOOSE r \in 0..n : r * r = n

\* the square root of a float whose root is a float of the model
HasExactRoot(x) == IsFinite(x) /\ x[1] >= 0 /\ IsSquare(x[1]) /\ IsSquare(x[2])

FSqrt(x) == F(ISqrt(x[1]), ISqrt(x[2]))

Dot(x, y) == FAdd(FAdd(FMul(x[1], y[1]), FMul(x[2], y[2])), FMul(x[3], y[3]))

\* np.linalg.norm
Norm(x) == FSqrt(Dot(x, x))

\* x / scalar
Scaled(x, k) == [i \in 1..3 |-> FDiv(x[i], k)]

\* lines 93-99
Cross(x, y) ==
    << FSub(FMul(x[2], y[3]), FMul(x[3], y[2])),
       FSub(FMul(x[3], y[1]), FMul(x[1], y[3])),
       FSub(FMul(x[1], y[2]), FMul(x[2], y[1])) >>

\* x < np.finfo(float64).eps * 10, with eps = 2^-52: for x = n/d,
\* n * 2^52 < 10 * d, computed without forming 2^52
LessThanTenEps(x) ==
    LET half == 2^26
        ceil(p, q) == (p + q - 1) \div q
    IN  IsFinite(x) /\ x[1] < ceil(ceil(10 * x[2], half), half)

\* np.eye(3)
Eye3 == [i \in 1..3 |-> [j \in 1..3 |-> Eye(i, j)]]

\* lines 91-112
rotation_matrix(u0, v0) ==
    LET u == Scaled(u0, Norm(u0))
        v == Scaled(v0, Norm(v0))
        w0 == Cross(u, v)
    IN  IF LessThanTenEps(Dot(w0, w0)) THEN Eye3
        ELSE LET c == Dot(u, v)
                 sn == Norm(w0)
                 w == Scaled(w0, sn)
                 P == [i \in 1..3 |-> [j \in 1..3 |-> FMul(w[i], w[j])]]
                 Q == << <<Zero, FNeg(w[3]), w[2]>>,
                         <<w[3], Zero, FNeg(w[1])>>,
                         <<FNeg(w[2]), w[1], Zero>> >>
             IN  [i \in 1..3 |-> [j \in 1..3 |->
                    FAdd(FAdd(P[i][j], FMul(c, FSub(Eye3[i][j], P[i][j]))),
                         FMul(sn, Q[i][j]))]]

\* R @ x
MatVec(R, x) == [i \in 1..3 |-> Dot(R[i], x)]

\* non-zero vectors with integer coordinates and an exact norm
Vectors ==
    {x \in [1..3 -> {F(k, 1) : k \in -MaxCoord..MaxCoord}] :
        Dot(x, x) # Zero /\ HasExactRoot(Dot(x, x))}

\* the pairs on which every square root of rotation_matrix is exact
RotInputs ==
    {p \in Vectors \X Vectors :
        HasExactRoot(Dot(Cross(Scaled(p[1], Norm(p[1])), Scaled(p[2], Norm(p[2]))),
                         Cross(Scaled(p[1], Norm(p[1])), Scaled(p[2], Norm(p[2])))))}

InitRot ==
    /\ lambda_s = DefaultLambdaS
    /\ a = DefaultA
    /\ sigma_sq = DefaultSigmaSq
    /\ lambda_s_bounds = DefaultLambdaSBounds
    /\ a_bounds = DefaultABounds
    /\ sigma_sq_bounds = DefaultSigmaSqBounds
    /\ call = NoCall
    /\ hist = [lambda_s |-> lambda_s, a |-> a, sigma_sq |-> sigma_sq]
    /\ ev = EvIdle
    /\ st = StIdle
    /\ \E p \in RotInputs : rot = [pc |-> "called", u |-> p[1], v |-> p[2], R |-> Eye3]

\* rotation_matrix(u, v), run to completion
RotationMatrix ==
    /\ rot.pc = "called"
    /\ rot' = [rot EXCEPT !.pc = "done", !.R = rotation_matrix(rot.u, rot.v)]
    /\ UNCHANGED <<Scalars, Bounds, call, hist, ev, st>>

NextRot == RotationMatrix

SpecRot == InitRot /\ [][NextRot]_vars

Unit(x) == Scaled(x, Norm(x))

Collinear(x, y) == Dot(Cross(x, y), Cross(x, y)) = Zero

\* C9: for every pair of non-zero vectors u and v, rotation_matrix(u, v)
\* returns R with R . u = v for the normalized u and v, collinear pairs
\* (parallel or anti-parallel) included.
C9_RotatesUOntoV ==
    (rot.pc = "done") => MatVec(rot.R, Unit(rot.u)) = Unit(rot.v)

\* what the code does: R . u = v unless u and v are anti-parallel
C9_ExceptAntiParallel ==
    (rot.pc = "done") =>
        \/ MatVec(rot.R, Unit(rot.u)) = Unit(rot.v)
        \/ (Collinear(rot.u, rot.v) /\ Unit(rot.u) # Unit(rot.v) /\ rot.R = Eye3)

=============================================================================
